---------------------------- MODULE Spec2Model ----------------------------
(***************************************************************************)
(* The Markdown-backed content store of the blog (the `blog` module).      *)
(*                                                                         *)
(* A JavaScript string is a sequence of one-character strings, indexed     *)
(* from 0 by the helpers below exactly as the String methods index it.     *)
(* The filesystem is the enumeration of the posts directory; NODE_ENV is   *)
(* the process-wide mode.  Every exported function of the store is an      *)
(* operator of (mode, directory) and an action that records its outcome.   *)
(***************************************************************************)
EXTENDS Integers, Sequences, FiniteSets, TLC

VARIABLES
  NODE_ENV,     \* the mode the process runs in
  dirReadable,  \* whether fs.readdirSync(postsDirectory) succeeds
  dir,          \* the directory in enumeration order: entries [name, kind, content]
  result,       \* the last call and its outcome: [op, arg, out]
  first,        \* history: the first call of a sequence of calls, and its outcome
  steps         \* history: the number of steps of the sequence so far

vars == <<NODE_ENV, dirReadable, dir, result, first, steps>>

----------------------------------------------------------------------------
(* Bounds of the model. *)

MaxFiles == 2

\* The steps of a sequence of calls (and changes of the directory) whose
\* results are compared.
MaxSteps == 3

----------------------------------------------------------------------------
(* String primitives, with the semantics of the ECMAScript methods. *)

Min(a, b) == IF a <= b THEN a ELSE b

Max(a, b) == IF a >= b THEN a ELSE b

\* String.prototype.slice(start, end): negative indices count from the end,
\* both are clamped to the string, and an empty range yields "".
slice(s, start, end) ==
  LET len  == Len(s)
      from == IF start < 0 THEN Max(len + start, 0) ELSE Min(start, len)
      to   == IF end < 0 THEN Max(len + end, 0) ELSE Min(end, len)
  IN  IF from >= to THEN <<>> ELSE SubSeq(s, from + 1, to)

\* String.prototype.slice(start): to the end of the string.
sliceFrom(s, start) == slice(s, start, Len(s))

\* String.prototype.lastIndexOf(pat): the 0-based index of the last
\* occurrence of pat, or -1.
lastIndexOf(s, pat) ==
  LET hits == {i \in 0..(Len(s) - Len(pat)) : SubSeq(s, i + 1, i + Len(pat)) = pat}
  IN  IF hits = {} THEN -1 ELSE CHOOSE i \in hits : \A j \in hits : j <= i

\* String.prototype.split(sep) for a one-character separator: the pieces
\* between the separators, in order, empty pieces kept.
RECURSIVE split(_, _)
split(s, sep) ==
  IF \A i \in 1..Len(s) : s[i] # sep
  THEN <<s>>
  ELSE LET k == CHOOSE i \in 1..Len(s) : s[i] = sep /\ \A j \in 1..(i - 1) : s[j] # sep
       IN  <<SubSeq(s, 1, k - 1)>> \o split(SubSeq(s, k + 1, Len(s)), sep)

\* fileName.replace(/\.md$/, ''): a trailing ".md" is removed, any other
\* name is returned whole.
MdSuffix == <<".", "m", "d">>

\* Mutant of removeMd: the last three characters are cut off whatever
\* they are, fileName.slice(0, -3).
removeMd_CutsThree(fileName) == slice(fileName, 0, -3)

\* Mutant of removeMd: any extension is removed, /\.[^.]*$/.
removeMd_AnyExtension(fileName) ==
  LET dots == {i \in 1..Len(fileName) : fileName[i] = "."}
  IN  IF dots = {} THEN fileName
      ELSE SubSeq(fileName, 1, (CHOOSE i \in dots : \A j \in dots : j <= i) - 1)

removeMd(fileName) ==
  LET n == Len(fileName)
  IN  IF n >= 3 /\ SubSeq(fileName, n - 2, n) = MdSuffix
      THEN SubSeq(fileName, 1, n - 3)
      ELSE fileName

----------------------------------------------------------------------------
(* yaml.parse, for the documents the store feeds it: a flat block mapping  *)
(* of plain scalars, one `key: value` per line.  A parsed scalar keeps its *)
(* text v and carries its YAML core-schema type t.                         *)

Delimiter == <<"-", "-", "-">>

K_publish == <<"p", "u", "b", "l", "i", "s", "h">>

K_tags == <<"t", "a", "g", "s">>

K_date == <<"d", "a", "t", "e">>

K_title == <<"t", "i", "t", "l", "e">>

K_description == <<"d", "e", "s", "c", "r", "i", "p", "t", "i", "o", "n">>

K_readingTime == <<"r", "e", "a", "d", "i", "n", "g", "T", "i", "m", "e">>

\* The fields of the front-matter, and those of the metadata of a post.
PostYaml == {K_date, K_title, K_description, K_publish, K_tags}

PostMetadata == {K_date, K_title, K_description, K_publish, K_readingTime, K_tags}

Digits == {"0", "1", "2", "3", "4", "5", "6", "7", "8", "9"}

RECURSIVE trimLeft(_)
trimLeft(s) == IF s # <<>> /\ Head(s) = " " THEN trimLeft(Tail(s)) ELSE s

RECURSIVE trimRight(_)
trimRight(s) ==
  IF s # <<>> /\ s[Len(s)] = " " THEN trimRight(SubSeq(s, 1, Len(s) - 1)) ELSE s

trim(s) == trimRight(trimLeft(s))

\* The value of a plain scalar under the core schema.
yamlScalar(text) ==
  IF text = <<>> THEN [t |-> "null", v |-> text]
  ELSE IF text \in {<<"t", "r", "u", "e">>, <<"f", "a", "l", "s", "e">>}
  THEN [t |-> "bool", v |-> text]
  ELSE IF \A i \in 1..Len(text) : text[i] \in Digits
  THEN [t |-> "num", v |-> text]
  ELSE [t |-> "str", v |-> text]

\* The position of the mapping indicator of a line (a ':' followed by a
\* space or ending the line), or 0.
colonAt(line) ==
  LET at == {i \in 1..Len(line) :
               line[i] = ":" /\ (i = Len(line) \/ line[i + 1] = " ")}
  IN  IF at = {} THEN 0 ELSE CHOOSE i \in at : \A j \in at : i <= j

\* A document-start marker: `---` ending the line or followed by a space.
documentStart(line) ==
  line = Delimiter \/ slice(line, 0, 4) = Delimiter \o <<" ">>

SelectLines(lines) == SelectSeq(lines, LAMBDA l : trim(l) # <<>>)

\* [kind, map]: kind "map" with map a function from keys to scalars;
\* kind "null" for an empty document; kind "scalar" for a document that is
\* one plain scalar; kind "error" when parse throws (a second document
\* after a `---` line, a line of a mapping without a value, a key twice).
yamlParse(text) ==
  LET all   == SelectLines(split(text, "\n"))
      \* a `---` line before any content only starts the document
      lines == IF all # <<>> /\ all[1] = Delimiter THEN Tail(all) ELSE all
      keyOf(l) == trim(SubSeq(l, 1, colonAt(l) - 1))
      valOf(l) == yamlScalar(trim(SubSeq(l, colonAt(l) + 1, Len(l))))
      keys  == {keyOf(lines[i]) : i \in 1..Len(lines)}
      none  == [k \in {} |-> 0]
  IN  IF lines = <<>> THEN [kind |-> "null", map |-> none]
      ELSE IF \E i \in 1..Len(lines) : documentStart(lines[i])
      THEN [kind |-> "error", map |-> none]
      ELSE IF Len(lines) = 1 /\ colonAt(lines[1]) = 0
      THEN [kind |-> "scalar", map |-> none]
      ELSE IF \E i \in 1..Len(lines) : colonAt(lines[i]) = 0
      THEN [kind |-> "error", map |-> none]
      ELSE IF Cardinality(keys) # Len(lines)
      THEN [kind |-> "error", map |-> none]
      ELSE [kind |-> "map",
            map  |-> [k \in keys |->
                        valOf(lines[CHOOSE i \in 1..Len(lines) : keyOf(lines[i]) = k])]]

\* JavaScript truthiness of a parsed scalar.
truthy(val) ==
  CASE val.t = "bool" -> val.v = <<"t", "r", "u", "e">>
    [] val.t = "null" -> FALSE
    [] val.t = "num"  -> \E i \in 1..Len(val.v) : val.v[i] # "0"
    [] val.t = "str"  -> val.v # <<>>
    [] OTHER          -> TRUE

----------------------------------------------------------------------------
(* unnamed/part_005: getMetadata and getMarkdown. *)

\* The text handed to yaml.parse.
yamlContent(content) == slice(content, 3, lastIndexOf(content, Delimiter))

\* Mutant of splitTags: every tag is trimmed.
splitTags_Trimmed(tags) ==
  LET parts == split(tags, ",") IN [i \in 1..Len(parts) |-> trim(parts[i])]

\* metadata.tags.split(',')
splitTags(tags) == split(tags, ",")

\* [kind, error, value]: the metadata object, or the exception thrown.
getMetadata(content) ==
  LET metadata == yamlParse(yamlContent(content))
  IN  IF metadata.kind = "error"
      THEN [kind |-> "throw", error |-> "YAMLParseError", value |-> <<>>]
      ELSE IF \/ metadata.kind # "map"
              \/ K_tags \notin DOMAIN metadata.map
              \/ metadata.map[K_tags].t # "str"
      THEN [kind |-> "throw", error |-> "TypeError", value |-> <<>>]
      ELSE [kind  |-> "return",
            error |-> "",
            value |-> [k \in DOMAIN metadata.map |->
                         IF k = K_tags
                         THEN [t |-> "arr", v |-> splitTags(metadata.map[K_tags].v)]
                         ELSE metadata.map[k]]]

\* Mutant of getMarkdown: the body starts at the delimiter, not after it.
getMarkdown_KeepsDelimiter(content) ==
  sliceFrom(content, lastIndexOf(content, Delimiter))

getMarkdown(content) == sliceFrom(content, lastIndexOf(content, Delimiter) + 3)

\* Mutant of publish: the flag is never consulted.
publish_Ignored(metadata) == TRUE

\* metadata.publish as a condition: an absent field is undefined, falsy.
publish(metadata) == K_publish \in DOMAIN metadata /\ truthy(metadata[K_publish])

----------------------------------------------------------------------------
(* The filesystem as the store sees it. *)

Return(v) == [kind |-> "return", error |-> "", value |-> v]

Throw(e) == [kind |-> "throw", error |-> e, value |-> <<>>]

\* The absence value, undefined.
Undefined == [undefined |-> TRUE]

\* Mutant of readdirSync: a directory without entries is not there at all
\* (as in a checkout, which keeps no empty directory).
readdirSync_EmptyIsMissing(readable, d) ==
  IF readable /\ d # <<>> THEN Return([i \in 1..Len(d) |-> d[i].name]) ELSE Throw("ENOENT")

\* fs.readdirSync(postsDirectory): the names in enumeration order.
readdirSync(readable, d) ==
  IF readable THEN Return([i \in 1..Len(d) |-> d[i].name]) ELSE Throw("ENOENT")

\* Mutant of readFileSync: the error is caught and the entry read as an
\* empty file.
readFileSync_EmptyOnError(entry) ==
  IF entry.kind = "file" THEN Return(entry.content) ELSE Return(<<>>)

\* fs.readFileSync(fullPath, 'utf8'): a subdirectory cannot be read.
readFileSync(entry) ==
  IF entry.kind = "file" THEN Return(entry.content) ELSE Throw("EISDIR")

\* The least index at which outs holds a thrown exception, or 0.
firstThrow(outs) ==
  LET at == {i \in 1..Len(outs) : outs[i].kind = "throw"}
  IN  IF at = {} THEN 0 ELSE CHOOSE i \in at : \A j \in at : i <= j

Values(outs) == [i \in 1..Len(outs) |-> outs[i].value]

----------------------------------------------------------------------------
(* unnamed/part_005: the three read operations. *)

\* The callback of fileNames.map in getBlogPosts.
postMetadataOf(entry) ==
  LET id      == removeMd(entry.name)
      content == readFileSync(entry)
      metadata == getMetadata(content.value)
  IN  IF content.kind = "throw" THEN content
      ELSE IF metadata.kind = "throw" THEN metadata
      ELSE Return([id |-> id, metadata |-> metadata.value])

\* Mutant of getBlogPosts: the production filter is negated, and the
\* unpublished posts are the ones listed.
getBlogPosts_FilterNegated(env, readable, d) ==
  LET fileNames == readdirSync(readable, d)
      mapped    == [i \in 1..Len(d) |-> postMetadataOf(d[i])]
      keep(postMetadata) ==
        IF env = "production" THEN ~publish(postMetadata.metadata) ELSE TRUE
  IN  IF fileNames.kind = "throw" THEN fileNames
      ELSE IF firstThrow(mapped) # 0 THEN mapped[firstThrow(mapped)]
      ELSE Return(SelectSeq(Values(mapped), keep))

\* Mutant of getBlogPosts: the listing is sorted by date, newest first (a
\* post without a date counts as the oldest; posts of one date keep their
\* order).
getBlogPosts_NewestFirst(env, readable, d) ==
  LET fileNames == readdirSync(readable, d)
      mapped    == [i \in 1..Len(d) |-> postMetadataOf(d[i])]
      keep(postMetadata) ==
        IF env = "production" THEN publish(postMetadata.metadata) ELSE TRUE
      posts     == SelectSeq(Values(mapped), keep)
      n         == Len(posts)
      date(i)   == IF K_date \in DOMAIN posts[i].metadata
                   THEN IF posts[i].metadata[K_date].v = <<"2">> THEN 2 ELSE 1
                   ELSE 0
      before(i, j) == date(i) > date(j) \/ (date(i) = date(j) /\ i < j)
      order     == CHOOSE p \in [1..n -> 1..n] :
                     /\ \A j, k \in 1..n : p[j] = p[k] => j = k
                     /\ \A j, k \in 1..n : j < k => before(p[j], p[k])
  IN  IF fileNames.kind = "throw" THEN fileNames
      ELSE IF firstThrow(mapped) # 0 THEN mapped[firstThrow(mapped)]
      ELSE Return([k \in 1..n |-> posts[order[k]]])

\* Mutant of getBlogPosts: the listing is loaded once, and the outcome of
\* the first getBlogPosts() is handed back ever after.
getBlogPosts_LoadedOnce(env, readable, d) ==
  LET fileNames == readdirSync(readable, d)
      mapped    == [i \in 1..Len(d) |-> postMetadataOf(d[i])]
      keep(postMetadata) ==
        IF env = "production" THEN publish(postMetadata.metadata) ELSE TRUE
  IN  IF first.op = "getBlogPosts" THEN first.out
      ELSE IF fileNames.kind = "throw" THEN fileNames
      ELSE IF firstThrow(mapped) # 0 THEN mapped[firstThrow(mapped)]
      ELSE Return(SelectSeq(Values(mapped), keep))

\* Mutant of getBlogPosts: a file that cannot be read or parsed is skipped,
\* and the others are listed.
getBlogPosts_SkipsMalformed(env, readable, d) ==
  LET fileNames == readdirSync(readable, d)
      mapped    == [i \in 1..Len(d) |-> postMetadataOf(d[i])]
      loaded(out) == out.kind = "return"
      keep(postMetadata) ==
        IF env = "production" THEN publish(postMetadata.metadata) ELSE TRUE
  IN  IF fileNames.kind = "throw" THEN fileNames
      ELSE Return(SelectSeq(Values(SelectSeq(mapped, loaded)), keep))

getBlogPosts(env, readable, d) ==
  LET keep(postMetadata) ==
        IF env = "production" THEN publish(postMetadata.metadata) ELSE TRUE
      posts(fileNames, mapped) ==
        IF fileNames.kind = "throw" THEN fileNames
        ELSE IF firstThrow(mapped) # 0 THEN mapped[firstThrow(mapped)]
        ELSE Return(SelectSeq(Values(mapped), keep))
  IN  posts(readdirSync(readable, d), [i \in 1..Len(d) |-> postMetadataOf(d[i])])

\* Mutant of keepFileName: the file is read and parsed before the mode is
\* tested.
keepFileName_ReadsFirst(env, entry) ==
  LET content  == readFileSync(entry)
      metadata == getMetadata(content.value)
  IN  IF content.kind = "throw" THEN content
      ELSE IF metadata.kind = "throw" THEN metadata
      ELSE IF env # "production" THEN Return(TRUE)
      ELSE IF ~publish(metadata.value) THEN Return(FALSE)
      ELSE Return(TRUE)

\* Mutant of keepFileName: the negation of the publish test is lost, and
\* the published files are the ones dropped.
keepFileName_Inverted(env, entry) ==
  LET content  == readFileSync(entry)
      metadata == getMetadata(content.value)
  IN  IF env # "production" THEN Return(TRUE)
      ELSE IF content.kind = "throw" THEN content
      ELSE IF metadata.kind = "throw" THEN metadata
      ELSE IF publish(metadata.value) THEN Return(FALSE)
      ELSE Return(TRUE)

\* The callback of filenames.filter in getBlogPostIds: whether the entry
\* is kept, or the exception thrown while deciding.
keepFileName(env, entry) ==
  LET content  == readFileSync(entry)
      metadata == getMetadata(content.value)
  IN  IF env # "production" THEN Return(TRUE)
      ELSE IF content.kind = "throw" THEN content
      ELSE IF metadata.kind = "throw" THEN metadata
      ELSE IF ~publish(metadata.value) THEN Return(FALSE)
      ELSE Return(TRUE)

\* Mutant of getBlogPostIds: the names are mapped to ids unfiltered.
getBlogPostIds_Unfiltered(env, readable, d) ==
  LET filenames == readdirSync(readable, d)
  IN  IF filenames.kind = "throw" THEN filenames
      ELSE Return([i \in 1..Len(d) |-> removeMd(d[i].name)])

getBlogPostIds(env, readable, d) ==
  LET ids(filenames, kept) ==
        LET retained == SelectSeq([i \in 1..Len(d) |-> i], LAMBDA i : kept[i].value)
        IN  IF filenames.kind = "throw" THEN filenames
            ELSE IF firstThrow(kept) # 0 THEN kept[firstThrow(kept)]
            ELSE Return([j \in 1..Len(retained) |-> removeMd(d[retained[j]].name)])
  IN  ids(readdirSync(readable, d), [i \in 1..Len(d) |-> keepFileName(env, d[i])])

\* Mutant of findFileName: the last name whose id is id is taken.
findFileName_Last(d, id) ==
  LET at == {i \in 1..Len(d) : removeMd(d[i].name) = id}
  IN  IF at = {} THEN 0 ELSE CHOOSE i \in at : \A j \in at : j <= i

\* fileNames.find(...): the index of the first name whose id is id, or 0.
findFileName(d, id) ==
  LET at == {i \in 1..Len(d) : removeMd(d[i].name) = id}
  IN  IF at = {} THEN 0 ELSE CHOOSE i \in at : \A j \in at : i <= j

\* Mutant of getBlogPostById: the publish test is made in every mode.
getBlogPostById_FiltersAlways(env, readable, d, id) ==
  LET fileNames == readdirSync(readable, d)
      fileName  == findFileName(d, id)
      content   == readFileSync(d[fileName])
      metadata  == getMetadata(content.value)
      markdown  == getMarkdown(content.value)
  IN  IF fileNames.kind = "throw" THEN fileNames
      ELSE IF fileName = 0 THEN Return(Undefined)
      ELSE IF content.kind = "throw" THEN content
      ELSE IF metadata.kind = "throw" THEN metadata
      ELSE IF ~publish(metadata.value) THEN Return(Undefined)
      ELSE Return([id |-> id, metadata |-> metadata.value, content |-> markdown])

\* Mutant of getBlogPostById: every file of the directory is read and
\* parsed before the id is looked up.
getBlogPostById_ReadsAll(env, readable, d, id) ==
  LET fileNames == readdirSync(readable, d)
      mapped    == [i \in 1..Len(d) |-> postMetadataOf(d[i])]
      fileName  == findFileName(d, id)
      post      == mapped[fileName].value
  IN  IF fileNames.kind = "throw" THEN fileNames
      ELSE IF firstThrow(mapped) # 0 THEN mapped[firstThrow(mapped)]
      ELSE IF fileName = 0 THEN Return(Undefined)
      ELSE IF env = "production" /\ ~publish(post.metadata) THEN Return(Undefined)
      ELSE Return([id |-> id, metadata |-> post.metadata,
                   content |-> getMarkdown(d[fileName].content)])

\* Mutant of getBlogPostById: the metadata of the post is the parsed
\* mapping itself, its tags not split.
getBlogPostById_RawMetadata(env, readable, d, id) ==
  LET fileNames == readdirSync(readable, d)
      fileName  == findFileName(d, id)
      content   == readFileSync(d[fileName])
      metadata  == getMetadata(content.value)
      markdown  == getMarkdown(content.value)
      raw       == yamlParse(yamlContent(content.value)).map
  IN  IF fileNames.kind = "throw" THEN fileNames
      ELSE IF fileName = 0 THEN Return(Undefined)
      ELSE IF content.kind = "throw" THEN content
      ELSE IF metadata.kind = "throw" THEN metadata
      ELSE IF env = "production" /\ ~publish(metadata.value) THEN Return(Undefined)
      ELSE Return([id |-> id, metadata |-> raw, content |-> markdown])

\* Mutant of getBlogPostById: when the call before was a getBlogPosts()
\* that listed the id, its entry is handed back instead of reading the file.
getBlogPostById_ReusesListing(env, readable, d, id) ==
  LET fileNames == readdirSync(readable, d)
      fileName  == findFileName(d, id)
      content   == readFileSync(d[fileName])
      metadata  == getMetadata(content.value)
      markdown  == getMarkdown(content.value)
      listing   == IF result.op = "getBlogPosts" /\ result.out.kind = "return"
                   THEN result.out.value ELSE <<>>
      listed    == {k \in 1..Len(listing) : listing[k].id = id}
  IN  IF listed # {} THEN Return(listing[CHOOSE k \in listed : TRUE])
      ELSE IF fileNames.kind = "throw" THEN fileNames
      ELSE IF fileName = 0 THEN Return(Undefined)
      ELSE IF content.kind = "throw" THEN content
      ELSE IF metadata.kind = "throw" THEN metadata
      ELSE IF env = "production" /\ ~publish(metadata.value) THEN Return(Undefined)
      ELSE Return([id |-> id, metadata |-> metadata.value, content |-> markdown])

getBlogPostById(env, readable, d, id) ==
  LET fileNames == readdirSync(readable, d)
      fileName  == findFileName(d, id)
      content   == readFileSync(d[fileName])
      metadata  == getMetadata(content.value)
      markdown  == getMarkdown(content.value)
  IN  IF fileNames.kind = "throw" THEN fileNames
      ELSE IF fileName = 0 THEN Return(Undefined)
      ELSE IF content.kind = "throw" THEN content
      ELSE IF metadata.kind = "throw" THEN metadata
      ELSE IF env = "production" /\ ~publish(metadata.value) THEN Return(Undefined)
      ELSE Return([id |-> id, metadata |-> metadata.value, content |-> markdown])

----------------------------------------------------------------------------
(* src/scripts/blog.ts: the store as it was before the mode was consulted.
   Its getMetadata, its getMarkdown and the callback of its fileNames.map
   are, statement for statement, those of unnamed/part_005. *)

scripts_getBlogPosts(readable, d) ==
  LET posts(fileNames, mapped) ==
        IF fileNames.kind = "throw" THEN fileNames
        ELSE IF firstThrow(mapped) # 0 THEN mapped[firstThrow(mapped)]
        ELSE Return(Values(mapped))
  IN  posts(readdirSync(readable, d), [i \in 1..Len(d) |-> postMetadataOf(d[i])])

scripts_getBlogPostIds(readable, d) ==
  LET fileNames == readdirSync(readable, d)
  IN  IF fileNames.kind = "throw" THEN fileNames
      ELSE Return([i \in 1..Len(d) |-> removeMd(d[i].name)])

\* The outcome of a call together with the lines it wrote with console.log.
Logged(out, lines) ==
  [kind |-> out.kind, error |-> out.error, value |-> out.value, logged |-> lines]

\* The body of the post is written to the console before the post is
\* returned.
scripts_getBlogPostById(readable, d, id) ==
  LET fileNames == readdirSync(readable, d)
      fileName  == findFileName(d, id)
      content   == readFileSync(d[fileName])
      metadata  == getMetadata(content.value)
      markdown  == getMarkdown(content.value)
  IN  IF fileNames.kind = "throw" THEN Logged(fileNames, <<>>)
      ELSE IF fileName = 0 THEN Logged(Return(Undefined), <<>>)
      ELSE IF content.kind = "throw" THEN Logged(content, <<>>)
      ELSE IF metadata.kind = "throw" THEN Logged(metadata, <<>>)
      ELSE Logged(Return([id |-> id, metadata |-> metadata.value, content |-> markdown]),
                  <<markdown>>)

----------------------------------------------------------------------------
(* unnamed/part_001: the page of one blog post. *)

\* The value getStaticPaths returns for the ids: one path for each id; any
\* other id is served on demand. An exception of getBlogPostIds
\* propagates.
paths(ids) ==
  IF ids.kind = "throw" THEN ids
  ELSE Return([paths    |-> [k \in 1..Len(ids.value) |-> [params |-> [id |-> ids.value[k]]]],
               fallback |-> "blocking"])

getStaticPaths(env, readable, d) == paths(getBlogPostIds(env, readable, d))

\* The value getStaticProps returns for the post: the post, as
\* getBlogPostById returned it, is the only prop. An exception of
\* getBlogPostById propagates.
props(post) ==
  IF post.kind = "throw" THEN post
  ELSE Return([props |-> [post |-> post.value]])

getStaticProps(env, readable, d, id) == props(getBlogPostById(env, readable, d, id))

\* BlogPost: the component reads post.metadata and post.content; reading
\* a property of undefined is a TypeError.
BlogPost(post) ==
  IF post = Undefined THEN Throw("TypeError")
  ELSE Return([metadata |-> post.metadata, content |-> post.content])

----------------------------------------------------------------------------
(* The files the model puts in the directory. *)

NL == <<"\n">>

PublishTrue == <<"p", "u", "b", "l", "i", "s", "h", ":", " ", "t", "r", "u", "e">>

PublishFalse == <<"p", "u", "b", "l", "i", "s", "h", ":", " ", "f", "a", "l", "s", "e">>

TagsAB == <<"t", "a", "g", "s", ":", " ", "a", ",", "b">>

TagsSpaced == <<"t", "a", "g", "s", ":", " ", "a", " ", ",", " ", "b">>

TagsEmpties == <<"t", "a", "g", "s", ":", " ", "a", ",", ",", "b", ",">>

TagsFive == <<"t", "a", "g", "s", ":", " ", "5">>

\* Two dates, the second the later one.
DateOne == <<"d", "a", "t", "e", ":", " ", "1">>

DateTwo == <<"d", "a", "t", "e", ":", " ", "2">>

Title == <<"t", "i", "t", "l", "e", ":", " ", "t">>

Description == <<"d", "e", "s", "c", "r", "i", "p", "t", "i", "o", "n", ":", " ", "d">>

Body == <<"x">>

\* ---\n<lines>\n---<body>: a front-matter block followed by the body.
Post(frontLines, body) == Delimiter \o NL \o frontLines \o NL \o Delimiter \o body

Contents ==
  { \* every field of the front-matter: published, two tags, the later date
    Post(Title \o NL \o DateTwo \o NL \o Description \o NL \o PublishTrue \o NL \o TagsAB,
         NL \o Body),
    \* unpublished, tags with spaces around the comma, the earlier date
    Post(DateOne \o NL \o PublishFalse \o NL \o TagsSpaced, NL \o Body),
    \* no publish field, empty tags between and after the commas, no body
    Post(TagsEmpties, <<>>),
    \* unpublished, no tags field
    Post(PublishFalse, NL \o Body),
    \* tags is a number
    Post(PublishTrue \o NL \o TagsFive, NL \o Body),
    \* an empty front-matter block
    Delimiter \o Delimiter \o Body,
    \* an empty file
    <<>>,
    \* the closing delimiter is missing
    Delimiter \o NL \o PublishTrue \o NL \o TagsAB \o NL \o Body,
    \* the body holds a horizontal rule
    Post(PublishTrue \o NL \o TagsAB, NL \o Body \o NL \o Delimiter \o NL \o Body),
    \* an empty block, then a body that holds a block of its own
    Delimiter \o NL \o Post(PublishTrue \o NL \o TagsAB, NL \o Body),
    \* the opening delimiter is missing
    PublishTrue \o NL \o TagsAB \o NL \o Delimiter \o NL \o Body }

FileNames ==
  { <<"a">>, <<"a", ".", "m", "d">>, <<"a", ".", "t", "x", "t">> }

\* The ids asked of getBlogPostById: those of the names above, and one
\* that no name yields.
Ids ==
  { <<"a">>, <<"a", ".", "t", "x", "t">>, <<"b">> }

Entries ==
  [name : FileNames, kind : {"file"}, content : Contents]
    \cup [name : FileNames, kind : {"dir"}, content : {<<>>}]

Modes == {"production", "development"}

Names(d) == {d[i].name : i \in 1..Len(d)}

\* The directories of at most MaxFiles entries: no name twice.
Directories ==
  {d \in UNION {[1..n -> Entries] : n \in 0..MaxFiles} : Cardinality(Names(d)) = Len(d)}

----------------------------------------------------------------------------
(* The state machine. *)

NoCall == [op |-> "none", arg |-> <<>>, out |-> Return(Undefined)]

Init ==
  /\ NODE_ENV \in Modes
  /\ dirReadable \in BOOLEAN
  /\ dir \in Directories
  /\ result = NoCall
  /\ first = NoCall
  /\ steps = 0

\* Mutant of CallGetBlogPosts: the comparison of the mode with
\* 'production' is an assignment.
CallGetBlogPosts_AssignsMode ==
  /\ result' = [op  |-> "getBlogPosts",
                arg |-> <<>>,
                out |-> getBlogPosts("production", dirReadable, dir)]
  /\ NODE_ENV' = "production"
  /\ UNCHANGED <<dirReadable, dir, first, steps>>

CallGetBlogPosts ==
  /\ result' = [op  |-> "getBlogPosts",
                arg |-> <<>>,
                out |-> getBlogPosts(NODE_ENV, dirReadable, dir)]
  /\ UNCHANGED <<NODE_ENV, dirReadable, dir, first, steps>>

CallGetBlogPostIds ==
  /\ result' = [op  |-> "getBlogPostIds",
                arg |-> <<>>,
                out |-> getBlogPostIds(NODE_ENV, dirReadable, dir)]
  /\ UNCHANGED <<NODE_ENV, dirReadable, dir, first, steps>>

CallGetBlogPostById ==
  \E id \in Ids :
    /\ result' = [op  |-> "getBlogPostById",
                  arg |-> id,
                  out |-> getBlogPostById(NODE_ENV, dirReadable, dir, id)]
    /\ UNCHANGED <<NODE_ENV, dirReadable, dir, first, steps>>

\* The directory changes under the store: an entry is created at some
\* place of the enumeration, or an existing one is replaced in place.
WriteEntry ==
  \E e \in Entries :
    /\ \/ /\ e.name \notin Names(dir)
          /\ Len(dir) < MaxFiles
          /\ \E k \in 0..Len(dir) :
               dir' = SubSeq(dir, 1, k) \o <<e>> \o SubSeq(dir, k + 1, Len(dir))
       \/ \E k \in 1..Len(dir) :
            /\ dir[k].name = e.name
            /\ dir[k] # e
            /\ dir' = [dir EXCEPT ![k] = e]
    /\ result' = NoCall
    /\ UNCHANGED <<NODE_ENV, dirReadable, first, steps>>

RemoveEntry ==
  \E k \in 1..Len(dir) :
    /\ dir' = SubSeq(dir, 1, k - 1) \o SubSeq(dir, k + 1, Len(dir))
    /\ result' = NoCall
    /\ UNCHANGED <<NODE_ENV, dirReadable, first, steps>>

\* The directory becomes unreadable, or readable again.
SetReadable ==
  /\ dirReadable' = ~dirReadable
  /\ result' = NoCall
  /\ UNCHANGED <<NODE_ENV, dir, first, steps>>

Next ==
  \/ CallGetBlogPosts
  \/ CallGetBlogPostIds
  \/ CallGetBlogPostById
  \/ WriteEntry
  \/ RemoveEntry
  \/ SetReadable

Spec == Init /\ [][Next]_vars

----------------------------------------------------------------------------
(* A sequence of calls: the first call and its outcome are remembered, so
   that a later call can be compared with it. *)

CallOps == {"getBlogPosts", "getBlogPostIds", "getBlogPostById"}

\* A call may be made while the sequence is not at its end; the last call
\* of a sequence is the first call made again, after whatever calls were
\* made in between.
MayCall(op, arg) ==
  /\ steps < MaxSteps
  /\ steps = MaxSteps - 1 => (op = first.op /\ arg = first.arg)

\* The call that sets result' is counted, and remembered when it is the
\* first.
Remember ==
  /\ steps' = steps + 1
  /\ first' = IF steps = 0 THEN result' ELSE first

ThenGetBlogPosts ==
  /\ MayCall("getBlogPosts", <<>>)
  /\ result' = [op  |-> "getBlogPosts",
                arg |-> <<>>,
                out |-> getBlogPosts(NODE_ENV, dirReadable, dir)]
  /\ Remember
  /\ UNCHANGED <<NODE_ENV, dirReadable, dir>>

ThenGetBlogPostIds ==
  /\ MayCall("getBlogPostIds", <<>>)
  /\ result' = [op  |-> "getBlogPostIds",
                arg |-> <<>>,
                out |-> getBlogPostIds(NODE_ENV, dirReadable, dir)]
  /\ Remember
  /\ UNCHANGED <<NODE_ENV, dirReadable, dir>>

ThenGetBlogPostById ==
  \E id \in Ids :
    /\ MayCall("getBlogPostById", id)
    /\ result' = [op  |-> "getBlogPostById",
                  arg |-> id,
                  out |-> getBlogPostById(NODE_ENV, dirReadable, dir, id)]
    /\ Remember
    /\ UNCHANGED <<NODE_ENV, dirReadable, dir>>

\* Calls in any order, any of them again, the directory and the mode left
\* alone.
NextCalls ==
  \/ ThenGetBlogPosts
  \/ ThenGetBlogPostIds
  \/ ThenGetBlogPostById

SpecCalls == Init /\ [][NextCalls]_vars

----------------------------------------------------------------------------
(* A file is written and the store is queried at once: a call, then a
   change of the directory, then the same call again. *)

\* The directory has room for a file to be added.
InitChange == Init /\ Len(dir) < MaxFiles

\* After the first call a file is added at some place of the enumeration,
\* rewritten in place, or removed.
FileChanged ==
  /\ steps = 1
  /\ \/ \E e \in Entries :
          \/ /\ e.name \notin Names(dir)
             /\ Len(dir) < MaxFiles
             /\ \E k \in 0..Len(dir) :
                  dir' = SubSeq(dir, 1, k) \o <<e>> \o SubSeq(dir, k + 1, Len(dir))
          \/ \E k \in 1..Len(dir) :
               /\ dir[k].name = e.name
               /\ dir[k] # e
               /\ dir' = [dir EXCEPT ![k] = e]
     \/ \E k \in 1..Len(dir) :
          dir' = SubSeq(dir, 1, k - 1) \o SubSeq(dir, k + 1, Len(dir))
  /\ result' = NoCall
  /\ steps' = steps + 1
  /\ UNCHANGED <<NODE_ENV, dirReadable, first>>

NextChange ==
  \/ ThenGetBlogPosts
  \/ ThenGetBlogPostIds
  \/ ThenGetBlogPostById
  \/ FileChanged

SpecChange == InitChange /\ [][NextChange]_vars

----------------------------------------------------------------------------
(* The page of one blog post is generated: its paths are enumerated, the
   props of a requested id are fetched, and the component is rendered with
   them. *)

CallGetStaticPaths ==
  /\ result' = [op  |-> "getStaticPaths",
                arg |-> <<>>,
                out |-> getStaticPaths(NODE_ENV, dirReadable, dir)]
  /\ UNCHANGED <<NODE_ENV, dirReadable, dir, first, steps>>

\* fallback: 'blocking': an id that is not among the paths is served too.
CallGetStaticProps ==
  \E id \in Ids :
    /\ result' = [op  |-> "getStaticProps",
                  arg |-> id,
                  out |-> getStaticProps(NODE_ENV, dirReadable, dir, id)]
    /\ UNCHANGED <<NODE_ENV, dirReadable, dir, first, steps>>

\* The component is rendered with the props getStaticProps returned.
RenderBlogPost ==
  /\ result.op = "getStaticProps"
  /\ result.out.kind = "return"
  /\ result' = [op  |-> "BlogPost",
                arg |-> result.arg,
                out |-> BlogPost(result.out.value.props.post)]
  /\ UNCHANGED <<NODE_ENV, dirReadable, dir, first, steps>>

NextPage ==
  \/ CallGetStaticPaths
  \/ CallGetStaticProps
  \/ RenderBlogPost

SpecPage == Init /\ [][NextPage]_vars

----------------------------------------------------------------------------
(* The two versions of the store side by side: a question is asked of the
   store of src/scripts/blog.ts, and then the same question of the store of
   unnamed/part_005, of the same directory in the same mode. *)

OlderGetBlogPosts ==
  /\ steps = 0
  /\ result' = [op  |-> "getBlogPosts",
                arg |-> <<>>,
                out |-> scripts_getBlogPosts(dirReadable, dir)]
  /\ Remember
  /\ UNCHANGED <<NODE_ENV, dirReadable, dir>>

OlderGetBlogPostIds ==
  /\ steps = 0
  /\ result' = [op  |-> "getBlogPostIds",
                arg |-> <<>>,
                out |-> scripts_getBlogPostIds(dirReadable, dir)]
  /\ Remember
  /\ UNCHANGED <<NODE_ENV, dirReadable, dir>>

OlderGetBlogPostById ==
  \E id \in Ids :
    /\ steps = 0
    /\ result' = [op  |-> "getBlogPostById",
                  arg |-> id,
                  out |-> scripts_getBlogPostById(dirReadable, dir, id)]
    /\ Remember
    /\ UNCHANGED <<NODE_ENV, dirReadable, dir>>

NewerGetBlogPosts ==
  /\ steps = 1
  /\ first.op = "getBlogPosts"
  /\ result' = [op  |-> "getBlogPosts",
                arg |-> <<>>,
                out |-> getBlogPosts(NODE_ENV, dirReadable, dir)]
  /\ steps' = steps + 1
  /\ UNCHANGED <<NODE_ENV, dirReadable, dir, first>>

NewerGetBlogPostIds ==
  /\ steps = 1
  /\ first.op = "getBlogPostIds"
  /\ result' = [op  |-> "getBlogPostIds",
                arg |-> <<>>,
                out |-> getBlogPostIds(NODE_ENV, dirReadable, dir)]
  /\ steps' = steps + 1
  /\ UNCHANGED <<NODE_ENV, dirReadable, dir, first>>

NewerGetBlogPostById ==
  /\ steps = 1
  /\ first.op = "getBlogPostById"
  /\ result' = [op  |-> "getBlogPostById",
                arg |-> first.arg,
                out |-> getBlogPostById(NODE_ENV, dirReadable, dir, first.arg)]
  /\ steps' = steps + 1
  /\ UNCHANGED <<NODE_ENV, dirReadable, dir, first>>

NextVersions ==
  \/ OlderGetBlogPosts
  \/ OlderGetBlogPostIds
  \/ OlderGetBlogPostById
  \/ NewerGetBlogPosts
  \/ NewerGetBlogPostIds
  \/ NewerGetBlogPostById

SpecVersions == Init /\ [][NextVersions]_vars

----------------------------------------------------------------------------
(* What the claims speak of. *)

idOf(entry) == removeMd(entry.name)

\* The front-matter mapping of a file as the store parses it.
frontMatter(entry) == yamlParse(yamlContent(entry.content))

\* The file's front-matter carries publish: false.
PublishIsFalse(entry) ==
  /\ entry.kind = "file"
  /\ frontMatter(entry).kind = "map"
  /\ K_publish \in DOMAIN frontMatter(entry).map
  /\ frontMatter(entry).map[K_publish] = [t |-> "bool", v |-> <<"f", "a", "l", "s", "e">>]

\* No other entry of the directory derives the id of entry i.
IdIsUnique(i) == \A j \in 1..Len(dir) : idOf(dir[j]) = idOf(dir[i]) => j = i

\* The directory can be enumerated and every entry of it is a file.
FilesOnly == dirReadable /\ \A i \in 1..Len(dir) : dir[i].kind = "file"

Listed == result.op \in {"getBlogPosts", "getBlogPostIds"}

Returned == result.out.kind = "return"

\* The ids of a returned listing, in order.
ListedIds ==
  IF result.op = "getBlogPosts"
  THEN [i \in 1..Len(result.out.value) |-> result.out.value[i].id]
  ELSE result.out.value

Range(seq) == {seq[i] : i \in 1..Len(seq)}

IsFullPost(value, id) ==
  /\ value # Undefined
  /\ DOMAIN value = {"id", "metadata", "content"}
  /\ value.id = id

----------------------------------------------------------------------------
(* C1 *)

\* C1 as claimed: for every directory, in production no listing holds the
\* id of a file whose publish flag is false, and in any other mode both
\* listings return the id of every file in the directory.
C1_AsClaimed ==
  (Listed /\ FilesOnly) =>
    IF NODE_ENV = "production"
    THEN Returned =>
           \A i \in 1..Len(dir) : PublishIsFalse(dir[i]) => idOf(dir[i]) \notin Range(ListedIds)
    ELSE /\ Returned
         /\ \A i \in 1..Len(dir) : idOf(dir[i]) \in Range(ListedIds)

\* C1, amended: whenever getBlogPosts() or getBlogPostIds() returns a
\* listing, in production it holds no id of a file whose publish flag is
\* false unless another entry of the directory derives the same id, and in
\* any other mode it holds the id of every entry of the directory.
C1_PublishFilter ==
  (Listed /\ Returned) =>
    IF NODE_ENV = "production"
    THEN \A i \in 1..Len(dir) :
           (PublishIsFalse(dir[i]) /\ IdIsUnique(i)) => idOf(dir[i]) \notin Range(ListedIds)
    ELSE \A i \in 1..Len(dir) : idOf(dir[i]) \in Range(ListedIds)

\* A production listing that kept one post and dropped an unpublished one.
C1_Witness ==
  /\ Listed /\ Returned
  /\ NODE_ENV = "production"
  /\ Len(ListedIds) = 1
  /\ \E i \in 1..Len(dir) : PublishIsFalse(dir[i]) /\ IdIsUnique(i)

----------------------------------------------------------------------------
(* C2 *)

\* C2 as claimed: for every id of a file present with publish false,
\* getBlogPostById(id) returns undefined in production and the full post
\* in any other mode.
C2_AsClaimed ==
  (/\ result.op = "getBlogPostById"
   /\ dirReadable
   /\ \E i \in 1..Len(dir) : idOf(dir[i]) = result.arg /\ PublishIsFalse(dir[i])) =>
    /\ Returned
    /\ IF NODE_ENV = "production"
       THEN result.out.value = Undefined
       ELSE IsFullPost(result.out.value, result.arg)

\* C2, amended: for every id whose file, the first entry in enumeration
\* order that derives the id, has front-matter that getMetadata parses
\* (tags is a string) with publish false, getBlogPostById(id) returns
\* undefined in production and the full post in any other mode.
C2_UnpublishedLookup ==
  (/\ result.op = "getBlogPostById"
   /\ dirReadable
   /\ \E i \in 1..Len(dir) :
        /\ idOf(dir[i]) = result.arg
        /\ \A j \in 1..(i - 1) : idOf(dir[j]) # result.arg
        /\ PublishIsFalse(dir[i])
        /\ getMetadata(dir[i].content).kind = "return") =>
    /\ Returned
    /\ IF NODE_ENV = "production"
       THEN result.out.value = Undefined
       ELSE /\ IsFullPost(result.out.value, result.arg)
            /\ ~truthy(result.out.value.metadata[K_publish])

\* An unpublished post was looked up in production.
C2_Witness ==
  /\ result.op = "getBlogPostById"
  /\ NODE_ENV = "production"
  /\ dirReadable
  /\ \E i \in 1..Len(dir) : idOf(dir[i]) = result.arg /\ PublishIsFalse(dir[i])
  /\ result.out = Return(Undefined)

----------------------------------------------------------------------------
(* C3 *)

\* C3: for every id that no entry of a readable directory derives,
\* getBlogPostById(id) returns undefined and raises nothing, in either
\* mode and whatever the files hold.
C3_AbsentIdIsUndefined ==
  (/\ result.op = "getBlogPostById"
   /\ dirReadable
   /\ \A i \in 1..Len(dir) : idOf(dir[i]) # result.arg) =>
    result.out = Return(Undefined)

\* An absent id was looked up in a directory holding a file whose
\* front-matter cannot be parsed.
C3_Witness ==
  /\ result.op = "getBlogPostById"
  /\ dirReadable
  /\ \A i \in 1..Len(dir) : idOf(dir[i]) # result.arg
  /\ \E i \in 1..Len(dir) : dir[i].kind = "file" /\ getMetadata(dir[i].content).kind = "throw"
  /\ result.out = Return(Undefined)

----------------------------------------------------------------------------
(* C4 *)

\* The other listing, computed on the directory the last call saw.
PostsNow == getBlogPosts(NODE_ENV, dirReadable, dir)

IdsNow == getBlogPostIds(NODE_ENV, dirReadable, dir)

ProjectIds(posts) == [i \in 1..Len(posts) |-> posts[i].id]

\* C4 as claimed: for every directory content and in either mode,
\* getBlogPostIds() equals getBlogPosts() projected to its id field (both
\* raise, or both return and the ids are the same, as many, in order).
C4_AsClaimed ==
  (Listed /\ FilesOnly) =>
    /\ result.op = "getBlogPostIds" =>
         /\ PostsNow.kind = result.out.kind
         /\ Returned => result.out.value = ProjectIds(PostsNow.value)
    /\ result.op = "getBlogPosts" =>
         /\ IdsNow.kind = result.out.kind
         /\ Returned => IdsNow.value = ProjectIds(result.out.value)

\* C4, amended: for every directory content and in either mode, whenever
\* getBlogPosts() returns, getBlogPostIds() returns too and equals
\* getBlogPosts() projected to its id field: the same ids, as many, in
\* the same order.
C4_IdsAreProjection ==
  /\ (result.op = "getBlogPostIds" /\ PostsNow.kind = "return") =>
       result.out = Return(ProjectIds(PostsNow.value))
  /\ (result.op = "getBlogPosts" /\ Returned) =>
       IdsNow = Return(ProjectIds(result.out.value))

\* getBlogPostIds() returned one of two ids in production.
C4_Witness ==
  /\ result.op = "getBlogPostIds"
  /\ NODE_ENV = "production"
  /\ PostsNow.kind = "return"
  /\ Len(dir) = 2
  /\ Len(result.out.value) = 1

----------------------------------------------------------------------------
(* C5 *)

\* The file name with its extension, the last dot and what follows it,
\* removed.
ExtensionRemoved(name) ==
  LET dots == {i \in 2..Len(name) : name[i] = "."}
  IN  IF dots = {} THEN name
      ELSE SubSeq(name, 1, (CHOOSE i \in dots : \A j \in dots : j <= i) - 1)

\* The file name with a trailing ".md" removed: the name itself when it
\* does not end in ".md".
IsNameWithoutMd(id, name) ==
  IF id \o MdSuffix = name THEN TRUE
  ELSE id = name /\ (Len(name) < 3 \/ <<name[Len(name) - 2], name[Len(name) - 1], name[Len(name)]>> # MdSuffix)

\* The ids the last call derived are related to the names by Derives:
\* a development listing name by name, a production listing and a post
\* found by id to the name of some entry.
IdsDerivedBy(Derives(_, _)) ==
  /\ (Listed /\ Returned /\ NODE_ENV # "production") =>
       /\ Len(ListedIds) = Len(dir)
       /\ \A i \in 1..Len(dir) : Derives(ListedIds[i], dir[i].name)
  /\ (Listed /\ Returned /\ NODE_ENV = "production") =>
       \A k \in 1..Len(ListedIds) : \E i \in 1..Len(dir) : Derives(ListedIds[k], dir[i].name)
  /\ (result.op = "getBlogPostById" /\ Returned /\ result.out.value # Undefined) =>
       \E i \in 1..Len(dir) :
         /\ Derives(result.out.value.id, dir[i].name)
         /\ result.out.value.content = getMarkdown(dir[i].content)

\* C5 as claimed: for every file name in the directory, the id that
\* getBlogPosts, getBlogPostIds and getBlogPostById derive for it is the
\* file name with its extension removed.
C5_AsClaimed == IdsDerivedBy(LAMBDA id, name : id = ExtensionRemoved(name))

\* C5, amended: for every file name in the directory, the id that
\* getBlogPosts, getBlogPostIds and getBlogPostById derive for it is the
\* file name with a trailing ".md" removed; a name that does not end in
\* ".md" is its own id, whatever its extension.
C5_IdIsNameWithoutMd == IdsDerivedBy(IsNameWithoutMd)

\* A development listing of a .md file and of a file of another extension.
C5_Witness ==
  /\ Listed /\ Returned
  /\ NODE_ENV # "production"
  /\ \E i, j \in 1..Len(dir) :
       /\ ListedIds[i] \o MdSuffix = dir[i].name
       /\ ListedIds[j] = dir[j].name
       /\ ExtensionRemoved(dir[j].name) # dir[j].name

----------------------------------------------------------------------------
(* C6 *)

Distinct(seq) == \A i, j \in 1..Len(seq) : seq[i] = seq[j] => i = j

\* No name of the directory is another of its names followed by ".md".
NoMdTwin == \A i, j \in 1..Len(dir) : dir[j].name # dir[i].name \o MdSuffix

\* C6 as claimed: in non-production mode the listed ids are in one-to-one
\* correspondence with the files of the directory; no id occurs twice.
C6_AsClaimed ==
  (Listed /\ Returned /\ FilesOnly /\ NODE_ENV # "production") =>
    /\ Len(ListedIds) = Len(dir)
    /\ Distinct(ListedIds)

\* C6, amended: in non-production mode the listed ids are in one-to-one
\* correspondence with the files of the directory, and no id occurs
\* twice, provided the directory holds no name together with that name
\* followed by ".md" (a and a.md both yield the id a).
C6_IdsOneToOne ==
  (Listed /\ Returned /\ NODE_ENV # "production" /\ NoMdTwin) =>
    /\ Len(ListedIds) = Len(dir)
    /\ Distinct(ListedIds)

\* A development listing of two files returned two ids.
C6_Witness ==
  /\ result.op = "getBlogPostIds" /\ Returned
  /\ NODE_ENV # "production"
  /\ NoMdTwin
  /\ Len(dir) = 2
  /\ Len(ListedIds) = 2

----------------------------------------------------------------------------
(* The file getBlogPostById read, and the delimiters of a content. *)

\* The last call was getBlogPostById and entry i is the file it found,
\* read and parsed.
LookedUp(i) ==
  /\ result.op = "getBlogPostById"
  /\ dirReadable
  /\ idOf(dir[i]) = result.arg
  /\ \A j \in 1..(i - 1) : idOf(dir[j]) # result.arg
  /\ dir[i].kind = "file"

ReturnedPost == Returned /\ result.out.value # Undefined

\* The 0-based indices at which the delimiter occurs in a content.
Occurrences(content) ==
  {i \in 0..(Len(content) - 3) : SubSeq(content, i + 1, i + 3) = Delimiter}

Least(set) == CHOOSE i \in set : \A j \in set : i <= j

FirstOccurrence(content) == Least(Occurrences(content))

\* The second occurrence: the first one after the three characters of the
\* first.
LaterOccurrences(content) ==
  {i \in Occurrences(content) : i >= FirstOccurrence(content) + 3}

HasTwoDelimiters(content) ==
  Occurrences(content) # {} /\ LaterOccurrences(content) # {}

SecondOccurrence(content) == Least(LaterOccurrences(content))

----------------------------------------------------------------------------
(* C7 *)

CountOf(s, c) == Cardinality({i \in 1..Len(s) : s[i] = c})

RECURSIVE JoinWithCommas(_)
JoinWithCommas(parts) ==
  IF parts = <<>> THEN <<>>
  ELSE IF Len(parts) = 1 THEN parts[1]
  ELSE parts[1] \o <<",">> \o JoinWithCommas(Tail(parts))

\* parts is raw cut at each comma: one part more than raw has commas, and
\* the parts joined by commas are raw again, so that every part is the
\* untouched text between two commas, in order.
IsCommaSplit(parts, raw) ==
  /\ Len(parts) = CountOf(raw, ",") + 1
  /\ JoinWithCommas(parts) = raw

RawTagsIsString(entry) ==
  /\ frontMatter(entry).kind = "map"
  /\ K_tags \in DOMAIN frontMatter(entry).map
  /\ frontMatter(entry).map[K_tags].t = "str"

RawTags(entry) == frontMatter(entry).map[K_tags].v

TagsOf(metadata) == metadata[K_tags].v

\* C7: for every post whose raw front-matter tags field is a string, the
\* tags of the returned metadata are that string split at each comma: the
\* substrings in their order, untrimmed, one more than there are commas.
C7_TagsAreCommaSplit ==
  /\ \A i \in 1..Len(dir) :
       (LookedUp(i) /\ ReturnedPost /\ RawTagsIsString(dir[i])) =>
         IsCommaSplit(TagsOf(result.out.value.metadata), RawTags(dir[i]))
  /\ (result.op = "getBlogPosts" /\ Returned /\ NODE_ENV # "production") =>
       \A i \in 1..Len(dir) :
         RawTagsIsString(dir[i]) =>
           IsCommaSplit(TagsOf(result.out.value[i].metadata), RawTags(dir[i]))
  /\ (result.op = "getBlogPosts" /\ Returned /\ NODE_ENV = "production") =>
       \A k \in 1..Len(result.out.value) :
         \E i \in 1..Len(dir) :
           /\ idOf(dir[i]) = result.out.value[k].id
           /\ RawTagsIsString(dir[i])
           /\ IsCommaSplit(TagsOf(result.out.value[k].metadata), RawTags(dir[i]))

\* A post was returned whose tags hold an empty tag and a tag with a
\* space, or a listing returned such an entry.
C7_Witness ==
  \/ /\ result.op = "getBlogPostById" /\ ReturnedPost
     /\ \E k \in 1..Len(TagsOf(result.out.value.metadata)) :
          TagsOf(result.out.value.metadata)[k] = <<" ", "b">>
  \/ /\ result.op = "getBlogPosts" /\ Returned
     /\ \E i \in 1..Len(result.out.value) :
          /\ Len(TagsOf(result.out.value[i].metadata)) = 4
          /\ TagsOf(result.out.value[i].metadata)[2] = <<>>

----------------------------------------------------------------------------
(* C8 *)

\* C8 as claimed: for every file content, the text getMetadata parses as
\* front-matter is the text between the first and the second occurrence
\* of the delimiter, also when the body after the second holds '---'.
C8_AsClaimed ==
  \A i \in 1..Len(dir) :
    (LookedUp(i) /\ HasTwoDelimiters(dir[i].content)) =>
      yamlContent(dir[i].content) =
        slice(dir[i].content,
              FirstOccurrence(dir[i].content) + 3,
              SecondOccurrence(dir[i].content))

----------------------------------------------------------------------------
(* C9 *)

\* C9 as claimed: for every file content, the content field returned by
\* getBlogPostById is the text that follows the second occurrence of the
\* delimiter, untransformed, also when that text holds '---' again.
C9_AsClaimed ==
  \A i \in 1..Len(dir) :
    (LookedUp(i) /\ ReturnedPost /\ HasTwoDelimiters(dir[i].content)) =>
      result.out.value.content =
        sliceFrom(dir[i].content, SecondOccurrence(dir[i].content) + 3)

----------------------------------------------------------------------------
(* C10 *)

\* The front-matter region, the delimiter and the body make up the
\* content after its first three characters.
RoundTrip(content, body) ==
  yamlContent(content) \o Delimiter \o body = sliceFrom(content, 3)

RoundTripOfLookedUp(i) ==
  /\ RoundTrip(dir[i].content, getMarkdown(dir[i].content))
  /\ ReturnedPost => RoundTrip(dir[i].content, result.out.value.content)

\* C10 as claimed: for every file content, the region sliced by
\* getMetadata, the delimiter and the body sliced by getMarkdown are the
\* content with its leading delimiter removed.
C10_AsClaimed ==
  \A i \in 1..Len(dir) : LookedUp(i) => RoundTripOfLookedUp(i)

\* C10, amended: for every file content in which the delimiter occurs at
\* index 3 or later (a closing delimiter after the three characters of the
\* opening one), the region sliced by getMetadata, the delimiter and the
\* body sliced by getMarkdown are the content with its first three
\* characters removed; the regions do not overlap and drop no character.
C10_RoundTrip ==
  \A i \in 1..Len(dir) :
    (LookedUp(i) /\ \E k \in Occurrences(dir[i].content) : k >= 3) =>
      RoundTripOfLookedUp(i)

\* A post was returned from a content that holds the delimiter three
\* times.
C10_Witness ==
  \E i \in 1..Len(dir) :
    /\ LookedUp(i)
    /\ ReturnedPost
    /\ Cardinality(Occurrences(dir[i].content)) = 3
    /\ Len(result.out.value.content) > 0

----------------------------------------------------------------------------
(* C11 *)

\* The last call looked up an id of the listing getBlogPosts() returns in
\* the same mode and directory.
LookedUpListedId ==
  /\ result.op = "getBlogPostById"
  /\ PostsNow.kind = "return"
  /\ result.arg \in Range(ProjectIds(PostsNow.value))

\* The post found carries the id asked for, the metadata of every listing
\* entry of that id, and a content field.
AgreesWithListing ==
  /\ ReturnedPost
  /\ DOMAIN result.out.value = {"id", "metadata", "content"}
  /\ result.out.value.id = result.arg
  /\ \A k \in 1..Len(PostsNow.value) :
       PostsNow.value[k].id = result.arg =>
         result.out.value.metadata = PostsNow.value[k].metadata

\* Only one entry of the directory derives the id looked up.
ArgIsUnique ==
  Cardinality({i \in 1..Len(dir) : idOf(dir[i]) = result.arg}) <= 1

\* C11 as claimed: for every id that appears in getBlogPosts(),
\* getBlogPostById(id) returns a post with that id, the metadata of the
\* listing entry for that id, and the content.
C11_AsClaimed == LookedUpListedId => AgreesWithListing

\* C11: for every id of getBlogPosts() that only one entry of the directory
\* derives, getBlogPostById(id) returns a post with that id, the metadata
\* of the listing entry for that id, and the content.
C11_LookupAgreesWithListing ==
  (LookedUpListedId /\ ArgIsUnique) => AgreesWithListing

\* An id of a two-entry listing is looked up in production.
C11_Witness ==
  /\ LookedUpListedId
  /\ ArgIsUnique
  /\ NODE_ENV = "production"
  /\ Len(PostsNow.value) = 2
  /\ AgreesWithListing

----------------------------------------------------------------------------
(* C12 *)

\* The last call looked up an id that getBlogPostIds() returns in the same
\* mode and directory.
LookedUpEnumeratedId ==
  /\ result.op = "getBlogPostById"
  /\ IdsNow.kind = "return"
  /\ result.arg \in Range(IdsNow.value)

\* The entry that derives the id looked up is a file whose front-matter
\* getMetadata parses.
ArgIsLoadable ==
  \A i \in 1..Len(dir) :
    idOf(dir[i]) = result.arg =>
      dir[i].kind = "file" /\ getMetadata(dir[i].content).kind = "return"

\* C12 as claimed: for every id getBlogPostIds() returns,
\* getBlogPostById(id) returns a post, not undefined, in the same mode and
\* directory.
C12_AsClaimed == LookedUpEnumeratedId => ReturnedPost

\* C12: an id that getBlogPostIds() returns and only one entry derives is
\* valid in production (getBlogPostById returns a post for it); in any
\* other mode, where no file is read to enumerate, it is valid when its
\* entry is a file getMetadata parses, and the lookup raises when not.
C12_EnumeratedIdIsValid ==
  (LookedUpEnumeratedId /\ ArgIsUnique) =>
    /\ NODE_ENV = "production" => ReturnedPost
    /\ NODE_ENV # "production" =>
         IF ArgIsLoadable THEN ReturnedPost ELSE result.out.kind = "throw"

\* The only id of a production enumeration of two entries is looked up.
C12_Witness ==
  /\ LookedUpEnumeratedId
  /\ ArgIsUnique
  /\ NODE_ENV = "production"
  /\ Len(dir) = 2
  /\ Len(IdsNow.value) = 1
  /\ ReturnedPost

\* An enumerated id whose file cannot be parsed is looked up in development.
C12_WitnessUnloadable ==
  /\ LookedUpEnumeratedId
  /\ ArgIsUnique
  /\ NODE_ENV # "production"
  /\ ~ArgIsLoadable
  /\ result.out.kind = "throw"

----------------------------------------------------------------------------
(* C13 *)

\* The post is the listing entry of the directory entry: its id and the
\* metadata parsed from its content.
IsEntryOf(post, entry) ==
  /\ entry.kind = "file"
  /\ post.id = idOf(entry)
  /\ getMetadata(entry.content).kind = "return"
  /\ post.metadata = getMetadata(entry.content).value

\* The posts are listing entries of directory entries at increasing
\* indices: a subsequence of the enumeration, in its order.
FollowsEnumeration(posts) ==
  \E f \in [1..Len(posts) -> 1..Len(dir)] :
    /\ \A j, k \in 1..Len(posts) : j < k => f[j] < f[k]
    /\ \A k \in 1..Len(posts) : IsEntryOf(posts[k], dir[f[k]])

HasDate(post, digit) ==
  /\ K_date \in DOMAIN post.metadata
  /\ post.metadata[K_date].v = <<digit>>

\* C13: the sequence getBlogPosts() returns follows the enumeration order
\* of the directory in both modes: outside production it is the entries
\* one by one, in production a subsequence of them in the same relative
\* order; the dates play no part.
C13_FollowsEnumerationOrder ==
  (result.op = "getBlogPosts" /\ Returned) =>
    /\ FollowsEnumeration(result.out.value)
    /\ NODE_ENV # "production" => Len(result.out.value) = Len(dir)

\* A listing of two posts whose dates ascend, as the entries are
\* enumerated: the older post comes first.
C13_Witness ==
  /\ result.op = "getBlogPosts"
  /\ Returned
  /\ Len(result.out.value) = 2
  /\ HasDate(result.out.value[1], "1")
  /\ HasDate(result.out.value[2], "2")

\* A production listing of two posts out of the alphabetical order of their
\* ids, the dated one last.
C13_WitnessProduction ==
  /\ result.op = "getBlogPosts"
  /\ Returned
  /\ NODE_ENV = "production"
  /\ Len(result.out.value) = 2
  /\ result.out.value[1].id = <<"a", ".", "t", "x", "t">>
  /\ result.out.value[2].id = <<"a">>
  /\ HasDate(result.out.value[2], "2")

----------------------------------------------------------------------------
(* C14 *)

\* The content directory exists and holds no entry.
DirectoryIsEmpty == dirReadable /\ dir = <<>>

\* C14: when the content directory exists and is empty, getBlogPosts() and
\* getBlogPostIds() return the empty sequence and raise no error, in either
\* mode.
C14_EmptyDirectory ==
  (Listed /\ DirectoryIsEmpty) => result.out = Return(<<>>)

\* getBlogPostIds() has returned for the empty directory in production.
C14_Witness ==
  /\ result.op = "getBlogPostIds"
  /\ DirectoryIsEmpty
  /\ NODE_ENV = "production"
  /\ Returned

----------------------------------------------------------------------------
(* C15 *)

\* The last call is a later call of the operation called first, with the
\* same argument.
FirstCallAgain ==
  /\ steps >= 2
  /\ result.op = first.op
  /\ result.arg = first.arg

\* C15: with the directory and the mode unchanged, a call returns (or
\* raises) what the first call of that operation with that argument did,
\* whatever calls were made in between.
C15_Idempotent == FirstCallAgain => result.out = first.out

\* A post is looked up, another call is made, and the post is looked up
\* again.
C15_Witness ==
  /\ FirstCallAgain
  /\ steps = MaxSteps
  /\ result.op = "getBlogPostById"
  /\ ReturnedPost

----------------------------------------------------------------------------
(* C16 *)

\* Entry i is a file whose front-matter getMetadata parses.
Loads(i) == dir[i].kind = "file" /\ getMetadata(dir[i].content).kind = "return"

\* Entry i is listed in the mode the process runs in.
IsRetained(i) ==
  NODE_ENV = "production" => publish(getMetadata(dir[i].content).value)

\* The ids are those of the retained entries of the directory, in order.
IdsOfRetained(ids) ==
  /\ Len(ids) = Cardinality({i \in 1..Len(dir) : IsRetained(i)})
  /\ \E f \in [1..Len(ids) -> 1..Len(dir)] :
       /\ \A j, k \in 1..Len(ids) : j < k => f[j] < f[k]
       /\ \A k \in 1..Len(ids) : IsRetained(f[k]) /\ ids[k] = idOf(dir[f[k]])

\* The outcome of a listing is that of the directory as it is now.
FreshListing ==
  (Listed /\ dirReadable) =>
    IF result.op = "getBlogPostIds" /\ NODE_ENV # "production"
    THEN result.out = Return([i \in 1..Len(dir) |-> idOf(dir[i])])
    ELSE /\ Returned <=> \A i \in 1..Len(dir) : Loads(i)
         /\ Returned =>
              /\ IdsOfRetained(ListedIds)
              /\ result.op = "getBlogPosts" => FollowsEnumeration(result.out.value)

\* The outcome of a lookup is that of the directory as it is now: of the
\* first entry that derives the id, as its file reads now.
FreshLookup ==
  (result.op = "getBlogPostById" /\ dirReadable) =>
    /\ (\A i \in 1..Len(dir) : idOf(dir[i]) # result.arg) =>
         result.out = Return(Undefined)
    /\ \A i \in 1..Len(dir) :
         (idOf(dir[i]) = result.arg /\ \A j \in 1..(i - 1) : idOf(dir[j]) # result.arg) =>
           /\ Returned <=> Loads(i)
           /\ Returned =>
                IF IsRetained(i)
                THEN result.out.value =
                       [id       |-> result.arg,
                        metadata |-> getMetadata(dir[i].content).value,
                        content  |-> getMarkdown(dir[i].content)]
                ELSE result.out.value = Undefined

\* C16: the very next call after a file is added, removed or rewritten
\* returns (or raises) what the directory as it is now yields, never what
\* an earlier call saw.
C16_ReflectsCurrentFiles ==
  result.op \in CallOps =>
    /\ ~dirReadable => result.out.kind = "throw"
    /\ FreshListing
    /\ FreshLookup

\* A listing is taken, a file is added, and the listing taken again holds
\* one more post.
C16_Witness ==
  /\ steps = MaxSteps
  /\ first.op = "getBlogPosts"
  /\ result.op = "getBlogPosts"
  /\ first.out.kind = "return"
  /\ Returned
  /\ Len(result.out.value) = Len(first.out.value) + 1

\* A lookup raises on a malformed file, the file is rewritten, and the
\* same lookup returns the post.
C16_WitnessRewritten ==
  /\ steps = MaxSteps
  /\ first.op = "getBlogPostById"
  /\ result.op = "getBlogPostById"
  /\ first.out.kind = "throw"
  /\ ReturnedPost

----------------------------------------------------------------------------
(* C17 *)

\* The step is a call of the store: it leaves a call and its outcome in
\* result.
IsCall == result'.op \in CallOps

\* C17: no call, whether it returns a value, returns undefined or raises,
\* changes the set of files, the content of a file, or the mode.
C17_ReadOnly ==
  [][IsCall => (dir' = dir /\ dirReadable' = dirReadable /\ NODE_ENV' = NODE_ENV)]_vars

\* One call has raised, on a directory of two entries in production.
C17_Witness ==
  /\ result.op \in CallOps
  /\ result.out.kind = "throw"
  /\ dirReadable
  /\ Len(dir) = 2
  /\ NODE_ENV = "production"

----------------------------------------------------------------------------
(* C18 *)

\* Entry i cannot be read as a file.
Unreadable(i) == dir[i].kind # "file"

IsFilesystemError(out) == out.kind = "throw" /\ out.error \in {"ENOENT", "EISDIR"}

\* The first entry that fails to load is one that cannot be read.
FirstFailureIsUnreadable ==
  \E i \in 1..Len(dir) : Unreadable(i) /\ \A j \in 1..(i - 1) : Loads(j)

\* Entry i is the first of the enumeration to derive the id looked up.
IsFound(i) ==
  /\ idOf(dir[i]) = result.arg
  /\ \A j \in 1..(i - 1) : idOf(dir[j]) # result.arg

----------------------------------------------------------------------------
(* C19 *)

\* What getBlogPostById returns now for the id the page was asked for.
LookupNow == getBlogPostById(NODE_ENV, dirReadable, dir, result.arg)

NotFound == [notFound |-> TRUE]

\* C19 as claimed: the page never hands an absent post to its renderer:
\* when getBlogPostById(id) returns undefined, getStaticProps yields a
\* not-found outcome, and BlogPost is rendered only with a full post.
C19_AsClaimed ==
  /\ (result.op = "getStaticProps" /\ LookupNow = Return(Undefined)) =>
       result.out = Return(NotFound)
  /\ result.op = "BlogPost" => LookupNow.value # Undefined

----------------------------------------------------------------------------
(* C20 *)

\* The content does not open with the delimiter, or the delimiter does not
\* occur a second time.
MissingDelimiter(entry) ==
  \/ Len(entry.content) < 3
  \/ SubSeq(entry.content, 1, 3) # Delimiter
  \/ ~HasTwoDelimiters(entry.content)

\* The text getMetadata slices parses to no mapping, or to a mapping whose
\* tags are absent or not a string.
Unparsable(entry) ==
  frontMatter(entry).kind # "map" \/ ~RawTagsIsString(entry)

IsParseError(out) ==
  out.kind = "throw" /\ out.error \in {"TypeError", "YAMLParseError"}

\* A listing raises when some file is malformed in the given sense, and a
\* lookup raises only for the id of such a file.
FailsFastOn(Malformed(_)) ==
  /\ (result.op = "getBlogPosts" /\ \E i \in 1..Len(dir) : Malformed(dir[i])) =>
       IsParseError(result.out)
  /\ (result.op = "getBlogPostById" /\ result.out.kind = "throw") =>
       \E i \in 1..Len(dir) : idOf(dir[i]) = result.arg /\ Malformed(dir[i])

MalformedAsClaimed(entry) == MissingDelimiter(entry) \/ Unparsable(entry)

\* C20 as claimed: if a file has front-matter missing a delimiter, parsing
\* to no mapping, or with tags absent or not a string, getBlogPosts()
\* raises and returns no entry, in either mode; getBlogPostById raises only
\* when the requested id is that file's.
C20_AsClaimed == FilesOnly => FailsFastOn(MalformedAsClaimed)

\* C20: if the text getMetadata slices from a file (from its fourth
\* character to the last delimiter) parses to no mapping, as when the
\* closing delimiter is missing, or has tags absent or not a string,
\* getBlogPosts() raises and returns no entry, in either mode;
\* getBlogPostById raises only when the requested id is that file's.
C20_FailFast == FilesOnly => FailsFastOn(Unparsable)

\* getBlogPosts() has raised in development on the second of two files,
\* the one whose closing delimiter is missing.
C20_Witness ==
  /\ result.op = "getBlogPosts"
  /\ FilesOnly
  /\ NODE_ENV # "production"
  /\ Len(dir) = 2
  /\ ~Unparsable(dir[1])
  /\ Cardinality(Occurrences(dir[2].content)) = 1
  /\ SubSeq(dir[2].content, 1, 3) = Delimiter
  /\ IsParseError(result.out)

\* A file without its opening delimiter is listed in development.
C20_WitnessNoOpening ==
  /\ result.op = "getBlogPosts"
  /\ FilesOnly
  /\ Len(dir) = 1
  /\ Len(dir[1].content) >= 3
  /\ SubSeq(dir[1].content, 1, 3) # Delimiter
  /\ Returned
  /\ Len(result.out.value) = 1

----------------------------------------------------------------------------
(* C21 *)

\* getBlogPosts() raises on the directory: some entry of it cannot be
\* loaded.
ListingRaises == PostsNow.kind = "throw"

\* C21: on a directory that can be enumerated, getBlogPostIds() outside
\* production reads no file: it returns one id for each entry, in order,
\* also when getBlogPosts() raises on the same directory. In production it
\* reads and parses the files: it returns only when every entry loads, and
\* raises what getBlogPosts() raises on the same directory.
C21_IdsReadNoFile ==
  (result.op = "getBlogPostIds" /\ dirReadable) =>
    IF NODE_ENV # "production"
    THEN result.out = Return([i \in 1..Len(dir) |-> idOf(dir[i])])
    ELSE /\ Returned <=> \A i \in 1..Len(dir) : Loads(i)
         /\ ListingRaises => result.out = PostsNow

\* Outside production getBlogPostIds() has returned two ids for a
\* directory whose second file getBlogPosts() raises a parse error on.
C21_Witness ==
  /\ result.op = "getBlogPostIds"
  /\ NODE_ENV # "production"
  /\ FilesOnly
  /\ Len(dir) = 2
  /\ Loads(1)
  /\ IsParseError(PostsNow)
  /\ Returned
  /\ Len(result.out.value) = 2

\* In production getBlogPostIds() has raised the parse error of the same
\* kind of directory.
C21_WitnessProduction ==
  /\ result.op = "getBlogPostIds"
  /\ NODE_ENV = "production"
  /\ FilesOnly
  /\ Len(dir) = 2
  /\ Loads(1)
  /\ IsParseError(PostsNow)
  /\ result.out = PostsNow

----------------------------------------------------------------------------
(* C22 *)

\* What the call in result yields on the same directory when the process
\* does not run in production.
InDevelopment ==
  CASE result.op = "getBlogPosts"   -> getBlogPosts("development", dirReadable, dir)
    [] result.op = "getBlogPostIds" -> getBlogPostIds("development", dirReadable, dir)
    [] OTHER -> getBlogPostById("development", dirReadable, dir, result.arg)

\* The places of the directory whose file has a falsy publish.
Unpublished ==
  {i \in 1..Len(dir) : ~publish(getMetadata(dir[i].content).value)}

\* The sequence with the elements at the given places taken out, the
\* others in their order.
Without(seq, places) ==
  LET left == SelectSeq([i \in 1..Len(seq) |-> i], LAMBDA i : i \notin places)
  IN  [k \in 1..Len(left) |-> seq[left[k]]]

HasTruthyPublish(post) == publish(post.metadata)

C22_WitnessIds ==
  /\ NODE_ENV = "production"
  /\ result.op = "getBlogPostIds"
  /\ Len(dir) = 2
  /\ Unpublished = {2}
  /\ Returned
  /\ Len(result.out.value) = 1
  /\ Len(InDevelopment.value) = 2

\* In production getBlogPostById has returned a post.
C22_WitnessLookup ==
  /\ NODE_ENV = "production"
  /\ result.op = "getBlogPostById"
  /\ ReturnedPost

----------------------------------------------------------------------------
(* C23 *)

\* Both versions have answered the same question: first holds the answer
\* of the store of src/scripts/blog.ts, result that of unnamed/part_005.
Compared == steps = 2 /\ result.op = first.op /\ result.arg = first.arg

\* The two calls raised the same exception, or returned the same value.
SameResult(older, newer) ==
  /\ older.kind = newer.kind
  /\ older.error = newer.error
  /\ older.value = newer.value

\* The listings differ by the unpublished posts, removed from the newer.
PostsDifferByUnpublished(older, newer) ==
  /\ older.kind = newer.kind
  /\ older.error = newer.error
  /\ newer.kind = "return" => newer.value = SelectSeq(older.value, HasTruthyPublish)

\* The ids differ by those of the unpublished posts, removed from the
\* newer.
IdsDifferByUnpublished(older, newer) ==
  /\ older.kind = newer.kind
  /\ older.error = newer.error
  /\ newer.kind = "return" => newer.value = Without(older.value, Unpublished)

\* The lookups differ when the post is unpublished, absent from the newer.
LookupDiffersByUnpublished(older, newer) ==
  IF older.kind = "return" /\ older.value # Undefined /\ ~HasTruthyPublish(older.value)
  THEN newer = Return(Undefined)
  ELSE SameResult(older, newer)

\* C23 as claimed: outside production the three operations of the two
\* versions return equal results for every directory and every id; in
\* production they differ only by the removal of the unpublished posts.
C23_AsClaimed ==
  Compared =>
    IF NODE_ENV # "production"
    THEN SameResult(first.out, result.out)
    ELSE CASE result.op = "getBlogPosts" -> PostsDifferByUnpublished(first.out, result.out)
           [] result.op = "getBlogPostIds" -> IdsDifferByUnpublished(first.out, result.out)
           [] OTHER -> LookupDiffersByUnpublished(first.out, result.out)

\* C23: outside production the three operations of the two versions
\* return equal results (or raise the same exception) for every directory
\* and every id. In production getBlogPosts and getBlogPostById differ only
\* by the removal of the unpublished posts; getBlogPostIds, where it
\* returns, differs only by the removal of their ids, but on a directory
\* that can be enumerated it raises when an entry cannot be read or
\* parsed, where the older version reads no file and returns every id.
C23_Refines ==
  Compared =>
    IF NODE_ENV # "production"
    THEN SameResult(first.out, result.out)
    ELSE CASE result.op = "getBlogPosts" -> PostsDifferByUnpublished(first.out, result.out)
           [] result.op = "getBlogPostIds" ->
                IF dirReadable /\ \E i \in 1..Len(dir) : ~Loads(i)
                THEN /\ first.out = Return([i \in 1..Len(dir) |-> idOf(dir[i])])
                     /\ result.out.kind = "throw"
                ELSE IdsDifferByUnpublished(first.out, result.out)
           [] OTHER -> LookupDiffersByUnpublished(first.out, result.out)

\* Outside production both versions have returned the same unpublished
\* post.
C23_Witness ==
  /\ Compared
  /\ NODE_ENV # "production"
  /\ result.op = "getBlogPostById"
  /\ ReturnedPost
  /\ ~HasTruthyPublish(result.out.value)
  /\ first.out.value = result.out.value

\* In production the newer getBlogPostIds() has raised on a malformed file
\* whose id the older one has returned.
C23_WitnessIds ==
  /\ Compared
  /\ NODE_ENV = "production"
  /\ result.op = "getBlogPostIds"
  /\ FilesOnly
  /\ IsParseError(result.out)
  /\ first.out.kind = "return"
  /\ Len(first.out.value) = Len(dir)

\* In production the newer getBlogPosts() has returned one of the two
\* posts the older one has returned.
C23_WitnessProduction ==
  /\ Compared
  /\ NODE_ENV = "production"
  /\ result.op = "getBlogPosts"
  /\ Returned
  /\ Len(first.out.value) = 2
  /\ Len(result.out.value) = 1

----------------------------------------------------------------------------
(* C24 *)

\* The front-matter of the entry carries every field required of it.
CarriesRequiredFields(entry) ==
  /\ entry.kind = "file"
  /\ frontMatter(entry).kind = "map"
  /\ PostYaml \subseteq DOMAIN frontMatter(entry).map

CarriesDeclaredFields(metadata) == PostMetadata \subseteq DOMAIN metadata

\* C24 as claimed: every metadata record getBlogPosts and getBlogPostById
\* return carries all the fields the PostMetadata type declares (date,
\* title, description, publish, readingTime, tags) whenever the
\* front-matter of the file carries title, date, description, publish and
\* tags.
C24_AsClaimed ==
  /\ (result.op = "getBlogPosts" /\ Returned) =>
       \A k \in 1..Len(result.out.value) : \A i \in 1..Len(dir) :
         (IsEntryOf(result.out.value[k], dir[i]) /\ CarriesRequiredFields(dir[i])) =>
           CarriesDeclaredFields(result.out.value[k].metadata)
  /\ \A i \in 1..Len(dir) :
       (LookedUp(i) /\ ReturnedPost /\ CarriesRequiredFields(dir[i])) =>
         CarriesDeclaredFields(result.out.value.metadata)

=============================================================================
